---- MODULE Spec2Model ----
(***************************************************************************)
(* A model of the request/response mapping layer of go-groupme: the        *)
(* client's Do wrapper, the Groups, Messages and Likes services, and the   *)
(* UnixTime JSON codec.                                                    *)
(*                                                                         *)
(* Go strings are sequences of one-character strings, so that URL          *)
(* parsing, query escaping and decimal formatting are computed character   *)
(* by character, as the library routines the code calls compute them.      *)
(***************************************************************************)
EXTENDS Integers, Sequences, FiniteSets, TLC

(***************************************************************************)
(* Characters and strings                                                  *)
(***************************************************************************)

\* The characters of the model, in byte order (the order sort.Strings uses).
\* "\n" stands for any ASCII control character, "e'" for a two-byte rune.
AsciiOrder ==
    << "\n", " ", "#", "%", "&", "+", ",", "-", ".", "/",
       "0", "1", "2", "3", "4", "5", "6", "7", "8", "9",
       ":", ";", "=", "?",
       "A", "B", "C", "D", "E", "F", "T", "_",
       "a", "b", "c", "d", "e", "f", "g", "h", "i", "j", "k", "l", "m",
       "n", "o", "p", "q", "r", "s", "t", "u", "v", "w", "x", "y", "z",
       "e'" >>

Digits == <<"0", "1", "2", "3", "4", "5", "6", "7", "8", "9">>

RankOf ==
    [c \in {AsciiOrder[i] : i \in 1..Len(AsciiOrder)} |->
        CHOOSE i \in 1..Len(AsciiOrder) : AsciiOrder[i] = c]

Rank(c) == RankOf[c]

IsDigit(c) == \E i \in 1..10 : Digits[i] = c

DigitVal(c) == (CHOOSE i \in 1..10 : Digits[i] = c) - 1

IsHex(c) == IsDigit(c) \/ c \in {"A", "B", "C", "D", "E", "F", "a", "b", "c", "d", "e", "f"}

\* len(s) of a Go string counts bytes, not characters.
Utf8Width(c) == IF c = "e'" THEN 2 ELSE 1

\* len(s): the sum of the widths of the characters of s.
ByteLen(s) ==
    Cardinality({i \in 1..Len(s) : Utf8Width(s[i]) = 1})
    + 2 * Cardinality({i \in 1..Len(s) : Utf8Width(s[i]) = 2})

\* The element of a one-element set.  { F(x) : x \in {e} } evaluates e once
\* and names its value x.
The(S) == CHOOSE v \in S : TRUE

\* The string made of n copies of the character c.
Repeat(c, n) == [i \in 1..n |-> c]

\* Index of the first occurrence of c in s, 0 when absent.
IndexOf(s, c) ==
    LET hits == {i \in 1..Len(s) : s[i] = c}
    IN IF hits = {} THEN 0 ELSE CHOOSE i \in hits : \A j \in hits : i <= j

Contains(s, c) == IndexOf(s, c) # 0

\* strings.Cut(s, c): the text before and after the first c.
Cut(s, c) ==
    LET i == IndexOf(s, c)
    IN IF i = 0 THEN [before |-> s, after |-> <<>>, found |-> FALSE]
       ELSE [before |-> SubSeq(s, 1, i - 1), after |-> SubSeq(s, i + 1, Len(s)), found |-> TRUE]

\* strings.Split(s, c)
RECURSIVE Split(_, _)
Split(s, c) ==
    LET x == Cut(s, c)
    IN IF x.found THEN <<x.before>> \o Split(x.after, c) ELSE <<s>>

\* strings.Join(elems, ",")
RECURSIVE Join(_, _)
Join(elems, sep) ==
    IF elems = <<>> THEN <<>>
    ELSE IF Len(elems) = 1 THEN elems[1]
    ELSE elems[1] \o sep \o Join(Tail(elems), sep)

\* Byte-wise string comparison a < b.
RECURSIVE StrLess(_, _)
StrLess(a, b) ==
    IF b = <<>> THEN FALSE
    ELSE IF a = <<>> THEN TRUE
    ELSE IF Head(a) = Head(b) THEN StrLess(Tail(a), Tail(b))
    ELSE Rank(Head(a)) < Rank(Head(b))

(***************************************************************************)
(* Decimal formatting and parsing                                          *)
(***************************************************************************)

RECURSIVE FormatUint(_)
FormatUint(n) ==
    IF n < 10 THEN <<Digits[n + 1]>>
    ELSE FormatUint(n \div 10) \o <<Digits[(n % 10) + 1]>>

\* Mutant: the sign of a negative number is dropped.
ItoaNoSign(n) == IF n < 0 THEN FormatUint(-n) ELSE FormatUint(n)

\* strconv.Itoa and fmt.Sprintf("%d", n)
Itoa(n) == IF n < 0 THEN <<"-">> \o FormatUint(-n) ELSE FormatUint(n)

RECURSIVE ParseUint(_, _)
ParseUint(s, acc) ==
    IF s = <<>> THEN [ok |-> TRUE, val |-> acc]
    ELSE IF ~IsDigit(Head(s)) THEN [ok |-> FALSE, val |-> 0]
    ELSE ParseUint(Tail(s), acc * 10 + DigitVal(Head(s)))

\* strconv.ParseInt(s, 10, 64): optional sign, then one or more digits.
ParseInt(s) ==
    IF s = <<>> THEN [ok |-> FALSE, val |-> 0]
    ELSE LET signed == Head(s) \in {"+", "-"}
             rest   == IF signed THEN Tail(s) ELSE s
             u      == IF rest = <<>> THEN [ok |-> FALSE, val |-> 0] ELSE ParseUint(rest, 0)
         IN IF ~u.ok THEN [ok |-> FALSE, val |-> 0]
            ELSE [ok |-> TRUE, val |-> IF Head(s) = "-" THEN -u.val ELSE u.val]

(***************************************************************************)
(* net/url: escaping, URL parsing, query values                           *)
(***************************************************************************)

\* The bytes of a character as pairs of hexadecimal digits.
PctBytes(c) ==
    CASE c = "\n" -> << <<"0", "A">> >>
      [] c = " "  -> << <<"2", "0">> >>
      [] c = "#"  -> << <<"2", "3">> >>
      [] c = "%"  -> << <<"2", "5">> >>
      [] c = "&"  -> << <<"2", "6">> >>
      [] c = "+"  -> << <<"2", "B">> >>
      [] c = ","  -> << <<"2", "C">> >>
      [] c = "/"  -> << <<"2", "F">> >>
      [] c = ":"  -> << <<"3", "A">> >>
      [] c = ";"  -> << <<"3", "B">> >>
      [] c = "="  -> << <<"3", "D">> >>
      [] c = "?"  -> << <<"3", "F">> >>
      [] c = "e'" -> << <<"C", "3">>, <<"A", "9">> >>
      [] OTHER    -> << >>

\* Characters url.QueryEscape leaves as they are.
Unreserved(c) == PctBytes(c) = << >>

RECURSIVE PctEncode(_)
PctEncode(bytes) ==
    IF bytes = <<>> THEN <<>>
    ELSE <<"%", Head(bytes)[1], Head(bytes)[2]>> \o PctEncode(Tail(bytes))

\* url.QueryEscape(s)
RECURSIVE QueryEscape(_)
QueryEscape(s) ==
    IF s = <<>> THEN <<>>
    ELSE LET c == Head(s)
         IN (IF Unreserved(c) THEN <<c>>
             ELSE IF c = " " THEN <<"+">>
             ELSE PctEncode(PctBytes(c))) \o QueryEscape(Tail(s))

UpperHex(c) ==
    CASE c = "a" -> "A" [] c = "b" -> "B" [] c = "c" -> "C"
      [] c = "d" -> "D" [] c = "e" -> "E" [] c = "f" -> "F" [] OTHER -> c

\* The character whose single byte is %h1h2; "\\x" is a byte outside the
\* alphabet of the model.
FromHex(h1, h2) ==
    LET b == <<UpperHex(h1), UpperHex(h2)>>
    IN IF \E i \in 1..Len(AsciiOrder) : PctBytes(AsciiOrder[i]) = <<b>>
       THEN AsciiOrder[CHOOSE i \in 1..Len(AsciiOrder) : PctBytes(AsciiOrder[i]) = <<b>>]
       ELSE "\\x"

\* First pass of url.unescape: every % is followed by two hex digits.
RECURSIVE ValidEscapes(_)
ValidEscapes(s) ==
    IF s = <<>> THEN TRUE
    ELSE IF Head(s) = "%"
         THEN Len(s) >= 3 /\ IsHex(s[2]) /\ IsHex(s[3]) /\ ValidEscapes(SubSeq(s, 4, Len(s)))
         ELSE ValidEscapes(Tail(s))

\* Second pass of url.unescape; plus is TRUE for a query component.
RECURSIVE UnescapeBytes(_, _)
UnescapeBytes(s, plus) ==
    IF s = <<>> THEN <<>>
    ELSE IF Head(s) = "%"
         THEN IF Len(s) >= 6 /\ SubSeq(s, 1, 6) = PctEncode(PctBytes("e'"))
              THEN <<"e'">> \o UnescapeBytes(SubSeq(s, 7, Len(s)), plus)
              ELSE <<FromHex(s[2], s[3])>> \o UnescapeBytes(SubSeq(s, 4, Len(s)), plus)
         ELSE IF Head(s) = "+" /\ plus THEN <<" ">> \o UnescapeBytes(Tail(s), plus)
         ELSE <<Head(s)>> \o UnescapeBytes(Tail(s), plus)

\* url.QueryUnescape(s)
QueryUnescape(s) ==
    IF ValidEscapes(s) THEN [ok |-> TRUE, val |-> UnescapeBytes(s, TRUE)]
    ELSE [ok |-> FALSE, val |-> <<>>]

\* url.PathUnescape(s)
PathUnescape(s) ==
    IF ValidEscapes(s) THEN [ok |-> TRUE, val |-> UnescapeBytes(s, FALSE)]
    ELSE [ok |-> FALSE, val |-> <<>>]

\* Characters URL.EscapedPath leaves as they are (shouldEscape in the mode
\* encodePath): of the reserved characters it escapes only "?".
PathKeeps(c) == Unreserved(c) \/ c \in {"&", "+", ",", "/", ":", ";", "="}

\* escape(s, encodePath)
RECURSIVE EscapePath(_)
EscapePath(s) ==
    IF s = <<>> THEN <<>>
    ELSE (IF PathKeeps(Head(s)) THEN <<Head(s)>> ELSE PctEncode(PctBytes(Head(s))))
         \o EscapePath(Tail(s))

\* validEncoded(s, encodePath)
ValidEncoded(s) == \A i \in 1..Len(s) : s[i] = "%" \/ PathKeeps(s[i])

\* URL.EscapedPath(), the path a request carries on the wire: RawPath
\* when it is a valid encoding of Path, the default encoding otherwise.
EscapedPath(u) ==
    IF /\ u.rawPath # <<>>
       /\ ValidEncoded(u.rawPath)
       /\ PathUnescape(u.rawPath) = [ok |-> TRUE, val |-> u.path]
    THEN u.rawPath
    ELSE EscapePath(u.path)

\* url.ParseQuery as URL.Query() uses it: a pair that holds a semicolon or
\* an invalid escape is dropped, the error ignored.  The result lists the
\* <<key, value>> pairs in the order of the query string.
RECURSIVE ParsePairs(_)
ParsePairs(segs) ==
    IF segs = <<>> THEN <<>>
    ELSE LET seg == Head(segs)
             kv  == Cut(seg, "=")
             k   == QueryUnescape(kv.before)
             v   == QueryUnescape(kv.after)
         IN (IF seg = <<>> \/ Contains(seg, ";") \/ ~k.ok \/ ~v.ok
             THEN <<>>
             ELSE << <<k.val, v.val>> >>) \o ParsePairs(Tail(segs))

ParseQuery(rawQuery) == ParsePairs(Split(rawQuery, "&"))

\* url.Values.Get-like view: the values of key, in order.
RECURSIVE ValuesOf(_, _)
ValuesOf(values, key) ==
    IF values = <<>> THEN <<>>
    ELSE (IF Head(values)[1] = key THEN <<Head(values)[2]>> ELSE <<>>)
         \o ValuesOf(Tail(values), key)

HasKey(values, key) == ValuesOf(values, key) # <<>>

RECURSIVE WithoutKey(_, _)
WithoutKey(values, key) ==
    IF values = <<>> THEN <<>>
    ELSE (IF Head(values)[1] = key THEN <<>> ELSE <<Head(values)>>)
         \o WithoutKey(Tail(values), key)

\* Mutant: url.Values.Add in place of Set.
ValuesAdd(values, key, val) == Append(values, <<key, val>>)

\* url.Values.Set(key, val): key now has the single value val.
ValuesSet(values, key, val) == Append(WithoutKey(values, key), <<key, val>>)

\* Stable insertion of a pair into a list sorted by key.
RECURSIVE InsertByKey(_, _)
InsertByKey(sorted, pair) ==
    IF sorted = <<>> THEN <<pair>>
    ELSE IF StrLess(pair[1], Head(sorted)[1]) THEN <<pair>> \o sorted
    ELSE <<Head(sorted)>> \o InsertByKey(Tail(sorted), pair)

RECURSIVE SortByKey(_)
SortByKey(values) ==
    IF values = <<>> THEN <<>>
    ELSE InsertByKey(SortByKey(SubSeq(values, 1, Len(values) - 1)), values[Len(values)])

RECURSIVE EncodePairs(_)
EncodePairs(values) ==
    IF values = <<>> THEN <<>>
    ELSE QueryEscape(Head(values)[1]) \o <<"=">> \o QueryEscape(Head(values)[2])
         \o (IF Len(values) > 1 THEN <<"&">> ELSE <<>>) \o EncodePairs(Tail(values))

\* url.Values.Encode(): "k=v&k=v", sorted by key, keys and values escaped.
ValuesEncode(values) == EncodePairs(SortByKey(values))

\* url.Parse(rawURL) of an absolute URL: the fragment is cut at the first
\* "#", the query at the first "?", the path is what follows the host.
\* Fails on a control character and on an invalid escape in the path or
\* the fragment.  RawPath is kept when the path is not in its default
\* encoding (URL.setPath).
ParseURL(rawURL) ==
    LET f      == Cut(rawURL, "#")
        q      == Cut(f.before, "?")
        s      == Cut(q.before, ":")
        auth   == SubSeq(s.after, 3, Len(s.after))
        h      == Cut(auth, "/")
        path   == IF h.found THEN <<"/">> \o h.after ELSE <<>>
        upath  == PathUnescape(path)
        ufrag  == PathUnescape(f.after)
    IN IF Contains(rawURL, "\n") \/ ~upath.ok \/ ~ufrag.ok
       THEN [ok |-> FALSE]
       ELSE [ok |-> TRUE, scheme |-> s.before, host |-> h.before, path |-> upath.val,
             rawPath |-> IF path = EscapePath(upath.val) THEN <<>> ELSE path,
             rawQuery |-> q.after, fragment |-> ufrag.val]

(***************************************************************************)
(* UnixTime: the time codec                                                *)
(***************************************************************************)

\* The zero time.Time, whose Unix() is -62135596800.
ZeroTime == [zero |-> TRUE]

\* time.Unix(sec, nsec)
TimeUnix(sec, nsec) == [zero |-> FALSE, sec |-> sec, nsec |-> nsec]

\* Mutant: the timestamp is written without its sign.
MarshalJSONNoSign(t) ==
    IF t.zero THEN <<"6", "2", "1", "3", "5", "5", "9", "6", "8", "0", "0">>
    ELSE ItoaNoSign(t.sec)

\* UnixTime.MarshalJSON: fmt.Sprintf("%d", t.Unix())
MarshalJSON(t) ==
    IF t.zero THEN <<"-", "6", "2", "1", "3", "5", "5", "9", "6", "8", "0", "0">>
    ELSE Itoa(t.sec)

\* UnixTime.UnmarshalJSON: strconv.ParseInt, then time.Unix(sec, 0)
UnmarshalJSON(data) ==
    LET p == ParseInt(data)
    IN IF p.ok THEN [ok |-> TRUE, t |-> TimeUnix(p.val, 0)]
       ELSE [ok |-> FALSE, t |-> ZeroTime]

(***************************************************************************)
(* encoding/json: values and decoding into the types of the package        *)
(***************************************************************************)

\* A JSON text is malformed (JBad) or a value: null, a string, a number
\* kept as its literal, an array, or an object (a function on field names).
JBad == [k |-> "bad"]

JNull == [k |-> "null"]

JStr(s) == [k |-> "str", s |-> s]

JNum(literal) == [k |-> "num", n |-> literal]

JArr(elems) == [k |-> "arr", a |-> elems]

JObj(fields) == [k |-> "obj", f |-> fields]

HasField(j, name) == j.k = "obj" /\ name \in DOMAIN j.f

\* The value of a field, null when the field is absent: the decoder leaves
\* the target alone in both cases.
FieldOf(j, name) == IF HasField(j, name) THEN j.f[name] ELSE JNull

\* Decoding into a Go string.
DecodeString(j) ==
    CASE j.k = "str"  -> [ok |-> TRUE, val |-> j.s]
      [] j.k = "null" -> [ok |-> TRUE, val |-> <<>>]
      [] OTHER        -> [ok |-> FALSE, val |-> <<>>]

\* Decoding into a Go int.
DecodeInt(j) ==
    CASE j.k = "num"  -> ParseInt(j.n)
      [] j.k = "null" -> [ok |-> TRUE, val |-> 0]
      [] OTHER        -> [ok |-> FALSE, val |-> 0]

\* Decoding into a UnixTime: the decoder hands every value, null included,
\* to UnmarshalJSON as its literal text.
DecodeUnixTime(j) ==
    IF j.k = "num" THEN UnmarshalJSON(j.n)
    ELSE IF j.k = "null" THEN UnmarshalJSON(<<"n", "u", "l", "l">>)
    ELSE [ok |-> FALSE, t |-> ZeroTime]

\* Decoding into a []string.
DecodeStrings(j) ==
    CASE j.k = "arr"  -> [ok  |-> \A i \in 1..Len(j.a) : DecodeString(j.a[i]).ok,
                          val |-> [i \in 1..Len(j.a) |-> DecodeString(j.a[i]).val]]
      [] j.k = "null" -> [ok |-> TRUE, val |-> <<>>]
      [] OTHER        -> [ok |-> FALSE, val |-> <<>>]

\* The zero Group.
ZeroGroup == [ID |-> <<>>, Name |-> <<>>, Description |-> <<>>, CreatedAt |-> ZeroTime]

\* Decoding into a Group (of its fields the model keeps four).  A field
\* that is absent keeps its zero value; an unknown field is ignored.
DecodeGroup(j) ==
    IF j.k = "null" THEN [ok |-> TRUE, val |-> ZeroGroup]
    ELSE IF j.k # "obj" THEN [ok |-> FALSE, val |-> ZeroGroup]
    ELSE LET id   == DecodeString(FieldOf(j, "id"))
             name == DecodeString(FieldOf(j, "name"))
             desc == DecodeString(FieldOf(j, "description"))
             at   == IF HasField(j, "created_at") THEN DecodeUnixTime(j.f["created_at"])
                     ELSE [ok |-> TRUE, t |-> ZeroTime]
         IN [ok  |-> id.ok /\ name.ok /\ desc.ok /\ at.ok,
             val |-> [ID |-> id.val, Name |-> name.val, Description |-> desc.val,
                      CreatedAt |-> at.t]]

\* Decoding into a []Group.
DecodeGroups(j) ==
    CASE j.k = "arr"  -> [ok  |-> \A i \in 1..Len(j.a) : DecodeGroup(j.a[i]).ok,
                          val |-> [i \in 1..Len(j.a) |-> DecodeGroup(j.a[i]).val]]
      [] j.k = "null" -> [ok |-> TRUE, val |-> <<>>]
      [] OTHER        -> [ok |-> FALSE, val |-> <<>>]

ZeroMessage == [ID |-> <<>>, Text |-> <<>>, CreatedAt |-> ZeroTime]

\* Decoding into a Message (of its fields the model keeps three).
DecodeMessage(j) ==
    IF j.k = "null" THEN [ok |-> TRUE, val |-> ZeroMessage]
    ELSE IF j.k # "obj" THEN [ok |-> FALSE, val |-> ZeroMessage]
    ELSE LET id   == DecodeString(FieldOf(j, "id"))
             text == DecodeString(FieldOf(j, "text"))
             at   == IF HasField(j, "created_at") THEN DecodeUnixTime(j.f["created_at"])
                     ELSE [ok |-> TRUE, t |-> ZeroTime]
         IN [ok  |-> id.ok /\ text.ok /\ at.ok,
             val |-> [ID |-> id.val, Text |-> text.val, CreatedAt |-> at.t]]

\* Decoding into a []Message.
DecodeMessages(j) ==
    CASE j.k = "arr"  -> [ok  |-> \A i \in 1..Len(j.a) : DecodeMessage(j.a[i]).ok,
                          val |-> [i \in 1..Len(j.a) |-> DecodeMessage(j.a[i]).val]]
      [] j.k = "null" -> [ok |-> TRUE, val |-> <<>>]
      [] OTHER        -> [ok |-> FALSE, val |-> <<>>]

\* json.Encoder.Encode of a *Group: the request body of Create and Update.
EncodeGroup(g) ==
    JObj([id          |-> JStr(g.ID),
          name        |-> JStr(g.Name),
          description |-> JStr(g.Description),
          created_at  |-> JNum(MarshalJSON(g.CreatedAt))])

\* Decoding the top level of a body into a struct: a malformed text and a
\* value that is neither an object nor null are errors.
TopLevelOk(j) == j.k \in {"obj", "null"}

\* Decoding into Error: meta.code, meta.errors, and response as struct{}.
DecodeErrorEnvelope(j) ==
    IF ~TopLevelOk(j) THEN [ok |-> FALSE, code |-> 0, errors |-> <<>>]
    ELSE LET meta   == FieldOf(j, "meta")
             resp   == FieldOf(j, "response")
             code   == DecodeInt(FieldOf(meta, "code"))
             errors == DecodeStrings(FieldOf(meta, "errors"))
         IN [ok     |-> /\ meta.k \in {"obj", "null"}
                        /\ resp.k \in {"obj", "null"}
                        /\ code.ok /\ errors.ok,
             code   |-> code.val,
             errors |-> errors.val]

\* Decoding into struct{ Groups []Group `json:"response"` }
DecodeGroupsEnvelope(j) ==
    IF ~TopLevelOk(j) THEN [ok |-> FALSE, val |-> <<>>]
    ELSE DecodeGroups(FieldOf(j, "response"))

\* Decoding into struct{ Group Group `json:"response"` }
DecodeGroupEnvelope(j) ==
    IF ~TopLevelOk(j) THEN [ok |-> FALSE, val |-> ZeroGroup]
    ELSE DecodeGroup(FieldOf(j, "response"))

\* Mutant: the group is taken directly from response.
DecodeJoinEnvelopeFlat(j) == DecodeGroupEnvelope(j)

\* Decoding into struct{ Response struct{ Group Group `json:"group"` } `json:"response"` }
DecodeJoinEnvelope(j) ==
    IF ~TopLevelOk(j) THEN [ok |-> FALSE, val |-> ZeroGroup]
    ELSE LET resp == FieldOf(j, "response")
         IN IF resp.k \notin {"obj", "null"} THEN [ok |-> FALSE, val |-> ZeroGroup]
            ELSE DecodeGroup(FieldOf(resp, "group"))

\* Decoding into struct{ Response struct{ Count int; Messages []Message } }
DecodeMessagesEnvelope(j) ==
    IF ~TopLevelOk(j) THEN [ok |-> FALSE, val |-> <<>>]
    ELSE LET resp  == FieldOf(j, "response")
             count == DecodeInt(FieldOf(resp, "count"))
             msgs  == DecodeMessages(FieldOf(resp, "messages"))
         IN IF resp.k \notin {"obj", "null"} THEN [ok |-> FALSE, val |-> <<>>]
            ELSE [ok |-> count.ok /\ msgs.ok, val |-> msgs.val]

(***************************************************************************)
(* Requests, responses and errors                                          *)
(***************************************************************************)

\* const BaseURL = "https://api.groupme.com/v3"
BaseURL ==
    << "h", "t", "t", "p", "s", ":", "/", "/", "a", "p", "i", ".", "g", "r", "o", "u", "p",
       "m", "e", ".", "c", "o", "m", "/", "v", "3" >>

PathGroups == <<"/", "g", "r", "o", "u", "p", "s">>

SegFormer == <<"/", "f", "o", "r", "m", "e", "r">>

SegUpdate == <<"/", "u", "p", "d", "a", "t", "e">>

SegDestroy == <<"/", "d", "e", "s", "t", "r", "o", "y">>

SegJoin == <<"/", "j", "o", "i", "n">>

SegMessages == <<"/", "m", "e", "s", "s", "a", "g", "e", "s">>

SegLike == <<"/", "l", "i", "k", "e">>

SegUnlike == <<"/", "u", "n", "l", "i", "k", "e">>

KeyToken == <<"t", "o", "k", "e", "n">>

KeyPage == <<"p", "a", "g", "e">>

KeyPerPage == <<"p", "e", "r", "_", "p", "a", "g", "e">>

KeyOmit == <<"o", "m", "i", "t">>

KeyGroupID == <<"g", "r", "o", "u", "p", "_", "i", "d">>

KeyBeforeID == <<"b", "e", "f", "o", "r", "e", "_", "i", "d">>

KeySinceID == <<"s", "i", "n", "c", "e", "_", "i", "d">>

KeyAfterID == <<"a", "f", "t", "e", "r", "_", "i", "d">>

KeyLimit == <<"l", "i", "m", "i", "t">>

ApplicationJSON == "application/json"

\* The lowest status code Do treats as an error.
StatusErrorMin == 400

NameMax == 140

DescriptionMax == 255

LimitMax == 100

NoErr == [kind |-> "nil"]

\* The error of http.Client.Do.
TransportErr == [kind |-> "transport"]

\* The error of json.Decoder.Decode.
JSONDecodeErr == [kind |-> "decode"]

\* The error of http.NewRequest (url.Parse).
URLErr == [kind |-> "url"]

\* The Error value Do returns for a status >= 400.
ApiErr(code, errors) == [kind |-> "api", code |-> code, errors |-> errors]

\* The errors made with fmt.Errorf: "<method>: <msg>".
ValidationErr(method, msg) == [kind |-> "validation", method |-> method, msg |-> msg]

NoBody == [k |-> "none"]

NoResponse == [kind |-> "none"]

\* http.NewRequest(method, url, body): fails when the URL does not parse.
NewRequest(method, rawURL, reqBody) ==
    LET u == ParseURL(rawURL)
    IN IF ~u.ok THEN [ok |-> FALSE]
       ELSE [ok  |-> TRUE,
             req |-> [method |-> method, host |-> u.host, path |-> u.path,
                      rawPath |-> u.rawPath, rawQuery |-> u.rawQuery, fragment |-> u.fragment,
                      contentType |-> "", body |-> reqBody]]

(***************************************************************************)
(* client.Do                                                               *)
(***************************************************************************)

\* The request as Do hands it to the network: the token parameter set,
\* the query re-encoded, the content type set.
PrepareRequest(token, req) ==
    [req EXCEPT !.rawQuery    = ValuesEncode(ValuesSet(ParseQuery(req.rawQuery), KeyToken, token)),
                !.contentType = ApplicationJSON]

\* Mutant: the error carries the HTTP status code, not meta.code.
ErrorResponseStatusCode(resp) ==
    The({ IF ~e.ok THEN [err |-> JSONDecodeErr, body |-> "open"]
          ELSE [err |-> ApiErr(resp.status, e.errors), body |-> "closed"] :
             e \in {DecodeErrorEnvelope(resp.body)} })

\* What Do makes of a response with a status >= 400.
ErrorResponse(resp) ==
    The({ IF ~e.ok THEN [err |-> JSONDecodeErr, body |-> "open"]
          ELSE [err |-> ApiErr(e.code, e.errors), body |-> "closed"] :
             e \in {DecodeErrorEnvelope(resp.body)} })

\* What Do returns once the round trip of the request out has the outcome
\* net.
DoOutcome(req, out, net) ==
    IF net.kind = "fail"
    THEN [given |-> req, sent |-> <<out>>, resp |-> NoResponse, err |-> TransportErr,
          body |-> "none"]
    ELSE IF net.status >= StatusErrorMin
    THEN The({ [given |-> req, sent |-> <<out>>, resp |-> net, err |-> e.err, body |-> e.body] :
                 e \in {ErrorResponse(net)} })
    ELSE [given |-> req, sent |-> <<out>>, resp |-> net, err |-> NoErr, body |-> "open"]

\* client.Do(req) when the round trip has the outcome net: the requests
\* handed to the network, the response and error returned, and the state
\* of the response body on return.
ClientDo(token, req, net) ==
    The({ DoOutcome(req, out, net) : out \in {PrepareRequest(token, req)} })

(***************************************************************************)
(* The services                                                            *)
(***************************************************************************)

NotCalled == [called |-> FALSE]

\* An operation that returns before it calls Do.
LocalFailure(err, zero) ==
    [sent |-> <<>>, doCalls |-> 0, do |-> NotCalled, body |-> "none",
     result |-> zero, err |-> err]

\* What a call of Do was given and what it returned.
DoReturn(d) == [called |-> TRUE, req |-> d.given, resp |-> d.resp, err |-> d.err]

\* Mutant: what the decoder filled in before it failed is returned.
AfterDoPartial(d, dec, zero) ==
    IF d.err # NoErr
    THEN [sent |-> d.sent, doCalls |-> 1, do |-> DoReturn(d), body |-> d.body,
          result |-> zero, err |-> d.err]
    ELSE The({ [sent |-> d.sent, doCalls |-> 1, do |-> DoReturn(d), body |-> "closed",
                result |-> x.val,
                err |-> IF x.ok THEN NoErr ELSE JSONDecodeErr] :
                  x \in {dec} })

\* The tail every operation shares, d being what Do returned: return Do's
\* error as it is, otherwise defer resp.Body.Close(), decode (dec), and
\* return the value or the error.
AfterDo(d, dec, zero) ==
    IF d.err # NoErr
    THEN [sent |-> d.sent, doCalls |-> 1, do |-> DoReturn(d), body |-> d.body,
          result |-> zero, err |-> d.err]
    ELSE The({ [sent |-> d.sent, doCalls |-> 1, do |-> DoReturn(d), body |-> "closed",
                result |-> IF x.ok THEN x.val ELSE zero,
                err |-> IF x.ok THEN NoErr ELSE JSONDecodeErr] :
                  x \in {dec} })

\* The decode step of the operations that decode nothing.
NoDecode == [ok |-> TRUE, val |-> "none"]

\* new(GroupsIndexOptions)
ZeroGroupsIndexOptions == [nil |-> FALSE, Offset |-> 0, Limit |-> 0, Omit |-> <<>>]

\* if options == nil { options = new(GroupsIndexOptions) }
GroupsIndexOptions(options) == IF options.nil THEN ZeroGroupsIndexOptions ELSE options

\* Mutant: the offset is sent as it is, zero-based.
GroupsIndexParamsZeroBased(params, o) ==
    LET p1 == IF o.Offset # 0 THEN ValuesSet(params, KeyPage, Itoa(o.Offset)) ELSE params
        p2 == IF o.Limit # 0 THEN ValuesSet(p1, KeyPerPage, Itoa(o.Limit)) ELSE p1
    IN IF Len(o.Omit) > 0 THEN ValuesSet(p2, KeyOmit, Join(o.Omit, <<",">>)) ELSE p2

\* The query parameters Groups.Index adds.
GroupsIndexParams(params, o) ==
    LET p1 == IF o.Offset # 0 THEN ValuesSet(params, KeyPage, Itoa(o.Offset + 1)) ELSE params
        p2 == IF o.Limit # 0 THEN ValuesSet(p1, KeyPerPage, Itoa(o.Limit)) ELSE p1
    IN IF Len(o.Omit) > 0 THEN ValuesSet(p2, KeyOmit, Join(o.Omit, <<",">>)) ELSE p2

\* groupsService.Index
GroupsIndex(token, options, net) ==
    The({ IF ~r.ok THEN LocalFailure(URLErr, <<>>)
          ELSE The({ AfterDo(d, DecodeGroupsEnvelope(d.resp.body), <<>>) :
                       d \in {ClientDo(token,
                                       [r.req EXCEPT !.rawQuery =
                                           ValuesEncode(GroupsIndexParams(ParseQuery(r.req.rawQuery),
                                                                          GroupsIndexOptions(options)))],
                                       net)} }) :
             r \in {NewRequest("GET", BaseURL \o PathGroups, NoBody)} })

\* groupsService.Former
GroupsFormer(token, net) ==
    The({ IF ~r.ok THEN LocalFailure(URLErr, <<>>)
          ELSE The({ AfterDo(d, DecodeGroupsEnvelope(d.resp.body), <<>>) :
                       d \in {ClientDo(token, r.req, net)} }) :
             r \in {NewRequest("GET", BaseURL \o PathGroups \o SegFormer, NoBody)} })

\* groupsService.Show
GroupsShow(token, id, net) ==
    The({ IF ~r.ok THEN LocalFailure(URLErr, ZeroGroup)
          ELSE The({ AfterDo(d, DecodeGroupEnvelope(d.resp.body), ZeroGroup) :
                       d \in {ClientDo(token, r.req, net)} }) :
             r \in {NewRequest("GET", BaseURL \o PathGroups \o <<"/">> \o id, NoBody)} })

\* The checks Create and Update make before they build a request.
ValidateGroup(method, g) ==
    IF g.Name = <<>> THEN ValidationErr(method, "group name is required")
    ELSE IF ByteLen(g.Name) > NameMax
    THEN ValidationErr(method, "group name length maximum is 140 characters")
    ELSE IF ByteLen(g.Description) > DescriptionMax
    THEN ValidationErr(method, "group description length maximum is 255 characters")
    ELSE NoErr

\* groupsService.Create
GroupsCreate(token, g, net) ==
    The({ IF v # NoErr THEN LocalFailure(v, ZeroGroup)
          ELSE The({ IF ~r.ok THEN LocalFailure(URLErr, ZeroGroup)
                     ELSE The({ AfterDo(d, DecodeGroupEnvelope(d.resp.body), ZeroGroup) :
                                  d \in {ClientDo(token, r.req, net)} }) :
                        r \in {NewRequest("POST", BaseURL \o PathGroups, EncodeGroup(g))} }) :
             v \in {ValidateGroup("GroupsService.Create", g)} })

\* groupsService.Update
GroupsUpdate(token, id, g, net) ==
    The({ IF v # NoErr THEN LocalFailure(v, ZeroGroup)
          ELSE The({ IF ~r.ok THEN LocalFailure(URLErr, ZeroGroup)
                     ELSE The({ AfterDo(d, DecodeGroupEnvelope(d.resp.body), ZeroGroup) :
                                  d \in {ClientDo(token, r.req, net)} }) :
                        r \in {NewRequest("POST",
                                          BaseURL \o PathGroups \o <<"/">> \o id \o SegUpdate,
                                          EncodeGroup(g))} }) :
             v \in {ValidateGroup("GroupsService.Update", g)} })

\* groupsService.Destroy
GroupsDestroy(token, id, net) ==
    The({ IF ~r.ok THEN LocalFailure(URLErr, "none")
          ELSE The({ AfterDo(d, NoDecode, "none") : d \in {ClientDo(token, r.req, net)} }) :
             r \in {NewRequest("POST", BaseURL \o PathGroups \o <<"/">> \o id \o SegDestroy,
                               NoBody)} })

\* groupsService.Join
GroupsJoin(token, id, shareToken, net) ==
    The({ IF ~r.ok THEN LocalFailure(URLErr, ZeroGroup)
          ELSE The({ AfterDo(d, DecodeJoinEnvelope(d.resp.body), ZeroGroup) :
                       d \in {ClientDo(token, r.req, net)} }) :
             r \in {NewRequest("POST",
                               BaseURL \o PathGroups \o <<"/">> \o id \o SegJoin \o <<"/">>
                                       \o shareToken,
                               NoBody)} })

\* groupsService.Rejoin
GroupsRejoin(token, id, net) ==
    The({ IF ~r.ok THEN LocalFailure(URLErr, ZeroGroup)
          ELSE The({ AfterDo(d, DecodeJoinEnvelope(d.resp.body), ZeroGroup) :
                       d \in {ClientDo(token,
                                       [r.req EXCEPT !.rawQuery =
                                           ValuesEncode(ValuesSet(ParseQuery(r.req.rawQuery),
                                                                  KeyGroupID, id))],
                                       net)} }) :
             r \in {NewRequest("POST", BaseURL \o PathGroups \o SegJoin, NoBody)} })

\* new(MessagesIndexOptions)
ZeroMessagesIndexOptions ==
    [nil |-> FALSE, BeforeID |-> <<>>, SinceID |-> <<>>, AfterID |-> <<>>, Limit |-> 0]

\* if options == nil { options = new(MessagesIndexOptions) }
MessagesIndexOptions(options) == IF options.nil THEN ZeroMessagesIndexOptions ELSE options

\* The cursor parameters Messages.Index adds.
MessagesCursorParams(params, o) ==
    LET p1 == IF o.BeforeID # <<>> THEN ValuesSet(params, KeyBeforeID, o.BeforeID) ELSE params
        p2 == IF o.SinceID # <<>> THEN ValuesSet(p1, KeySinceID, o.SinceID) ELSE p1
    IN IF o.AfterID # <<>> THEN ValuesSet(p2, KeyAfterID, o.AfterID) ELSE p2

\* The limit check of Messages.Index.
LimitTooLarge(limit) == limit # 0 /\ limit > LimitMax

\* The limit parameter Messages.Index adds.
MessagesLimitParam(params, o) ==
    IF o.Limit # 0 THEN ValuesSet(params, KeyLimit, Itoa(o.Limit)) ELSE params

\* messagesService.Index
MessagesIndex(token, groupID, options, net) ==
    The({ IF ~r.ok THEN LocalFailure(URLErr, <<>>)
          ELSE IF LimitTooLarge(o.Limit)
          THEN LocalFailure(ValidationErr("MessagesService.Index", "page limit maximum is 100"),
                            <<>>)
          ELSE The({ AfterDo(d, DecodeMessagesEnvelope(d.resp.body), <<>>) :
                       d \in {ClientDo(token,
                                       [r.req EXCEPT !.rawQuery =
                                           ValuesEncode(MessagesLimitParam(
                                               MessagesCursorParams(ParseQuery(r.req.rawQuery), o),
                                               o))],
                                       net)} }) :
             r \in {NewRequest("GET",
                               BaseURL \o PathGroups \o <<"/">> \o groupID \o SegMessages,
                               NoBody)},
             o \in {MessagesIndexOptions(options)} })

\* likesService.Create
LikesCreate(token, conversationID, messageID, net) ==
    The({ IF ~r.ok THEN LocalFailure(URLErr, "none")
          ELSE The({ AfterDo(d, NoDecode, "none") : d \in {ClientDo(token, r.req, net)} }) :
             r \in {NewRequest("POST",
                               BaseURL \o SegMessages \o <<"/">> \o conversationID \o <<"/">>
                                       \o messageID \o SegLike,
                               NoBody)} })

\* likesService.Destroy
LikesDestroy(token, conversationID, messageID, net) ==
    The({ IF ~r.ok THEN LocalFailure(URLErr, "none")
          ELSE The({ AfterDo(d, NoDecode, "none") : d \in {ClientDo(token, r.req, net)} }) :
             r \in {NewRequest("POST",
                               BaseURL \o SegMessages \o <<"/">> \o conversationID \o <<"/">>
                                       \o messageID \o SegUnlike,
                               NoBody)} })

(***************************************************************************)
(* Inputs                                                                  *)
(***************************************************************************)

\* Offsets of Groups.Index range over -1..MaxOffset.
MaxOffset == 2

\* Instants given to the time codec lie within MaxSeconds of the epoch.
MaxSeconds == 120

\* Byte sequences given to UnmarshalJSON are at most MaxRawLen long.
MaxRawLen == 3

Tokens == { <<"t", "1">>, <<"a", "&", "b">> }

\* IDs: plain, and with characters that mean something in a URL.
IDs ==
    { <<"g", "1">>,
      <<"a", "/", "b">>,
      <<"a", " ", "b">>,
      <<"a", "#", "b">>,
      <<"1", "?", "x", "=", "1">>,
      <<"a", "%", "2", "F", "b">>,
      <<"%", "z", "z">> }

MessageGroupIDs ==
    { <<"g", "1">>,
      <<"a", "#", "b">>,
      <<"1", "?", "l", "i", "m", "i", "t", "=", "5">>,
      <<"1", "?", "a", "f", "t", "e", "r", "_", "i", "d", "=", "9", "&", "x", "=">>,
      <<"%", "z", "z">> }

FewIDs == { <<"g", "1">>, <<"a", "?", "b">>, <<"%", "z", "z">> }

\* {"meta":{"code":<code>,"errors":[...]}}
ErrorEnvelope(code, errors) ==
    JObj([meta |-> JObj([code   |-> JNum(Itoa(code)),
                         errors |-> JArr([i \in 1..Len(errors) |-> JStr(errors[i])])])])

NotFound == <<"n", "o", "t", " ", "f", "o", "u", "n", "d">>

\* {"meta":{"code":404,"errors":["not found"]}}
NotFoundBody == ErrorEnvelope(404, <<NotFound>>)

\* {"meta":{"code":500,"errors":["a","b"]}}
TwoErrorsBody == ErrorEnvelope(500, << <<"a">>, <<"b">> >>)

\* {"id":<id>,"name":<name>}
GroupJSON(id, name) == JObj([id |-> JStr(id), name |-> JStr(name)])

\* {"response":{"id":"g1","name":"Test"}}
ShowBody == JObj([response |-> GroupJSON(<<"g", "1">>, <<"T", "e", "s", "t">>)])

\* {"response":{"group":{"id":"g1","name":"Test"}}}
JoinBody == JObj([response |-> JObj([group |-> GroupJSON(<<"g", "1">>, <<"T", "e", "s", "t">>)])])

\* {"response":[{"id":"g1","name":"Test"},{"id":"g2","created_at":5}]}
ListBody ==
    JObj([response |->
            JArr(<< GroupJSON(<<"g", "1">>, <<"T", "e", "s", "t">>),
                    JObj([id |-> JStr(<<"g", "2">>), created_at |-> JNum(<<"5">>)]) >>)])

\* {"response":{"count":2,"messages":[{"id":"m1"},{"id":"m2"}]}}
MessagesBody ==
    JObj([response |->
            JObj([count    |-> JNum(<<"2">>),
                  messages |-> JArr(<< JObj([id |-> JStr(<<"m", "1">>)]),
                                       JObj([id |-> JStr(<<"m", "2">>)]) >>)])])

\* {"response":{"id":"g1","created_at":"soon"}}
BadTimeBody ==
    JObj([response |-> JObj([id |-> JStr(<<"g", "1">>), created_at |-> JStr(<<"s">>)])])

\* {"other":null}
OtherBody == JObj([other |-> JNull])

\* {"meta":{"code":"x"}}
BadMetaBody == JObj([meta |-> JObj([code |-> JStr(<<"x">>)])])

Bodies ==
    { JBad, OtherBody, ShowBody, JoinBody, ListBody, MessagesBody, BadTimeBody, BadMetaBody }
    \cup { NotFoundBody, TwoErrorsBody }

\* The outcomes of a round trip: a failure, or a response.
Outcomes(statuses, bodies) ==
    { [kind |-> "fail"] }
    \cup { [kind |-> "resp", status |-> st, body |-> b] : st \in statuses, b \in bodies }

\* The outcomes tried on a direct call of Do, and on the services.
NetOutcomes == Outcomes({200, StatusErrorMin - 1, StatusErrorMin, 404}, Bodies)

ServiceOutcomes == Outcomes({200, 404}, Bodies)

NilOptions == [nil |-> TRUE]

OmitLists == { <<>>, << <<"m">> >>, << <<"a">>, <<"b", " ", "c">> >>, << <<>> >> }

GroupsIndexOptionsSet ==
    { NilOptions }
    \cup { [nil |-> FALSE, Offset |-> off, Limit |-> lim, Omit |-> om] :
              off \in (-1)..MaxOffset, lim \in {-1, 0, 10}, om \in OmitLists }

MessagesIndexOptionsSet ==
    { NilOptions }
    \cup { [nil |-> FALSE, BeforeID |-> b, SinceID |-> s, AfterID |-> a, Limit |-> l] :
              b \in { <<>>, <<"m", "1">> },
              s \in { <<>>, <<"m", "2">> },
              a \in { <<>>, <<"m", " ", "3">> },
              l \in {-1, 0, 1, LimitMax, LimitMax + 1, 150} }

\* Group names and descriptions: ASCII and two-byte characters, at and
\* around the limits.
GroupNames ==
    { Repeat("a", 0), Repeat("a", 1), Repeat("a", NameMax), Repeat("a", NameMax + 1),
      Repeat("e'", 70), Repeat("e'", 71), Repeat("e'", NameMax + 1) }

GroupDescriptions ==
    { Repeat("a", 0), Repeat("a", DescriptionMax), Repeat("a", DescriptionMax + 1),
      Repeat("e'", 128) }

GroupInputs ==
    { [ID |-> <<>>, Name |-> n, Description |-> d, CreatedAt |-> ZeroTime] :
         n \in GroupNames, d \in GroupDescriptions }

\* Requests a caller hands to Do directly.
DirectQueries ==
    { <<>>,
      <<"t", "o", "k", "e", "n", "=", "o", "l", "d">>,
      <<"t", "o", "k", "e", "n", "=", "a", "&", "x", "=", "1", "&", "t", "o", "k", "e", "n", "=", "b">>,
      <<"x", "=", "2", "&", "b", "=", "a", "+", "b", "&", "x", "=", "1">>,
      <<"x", "=", "1", "&", "y", "=", "%", "z", "z">> }

DirectRequests ==
    { [method |-> m, host |-> <<"h">>, path |-> <<"/", "p">>, rawPath |-> <<>>, rawQuery |-> q,
       fragment |-> <<>>, contentType |-> ct, body |-> NoBody] :
         m \in {"GET", "POST"}, q \in DirectQueries, ct \in {"", "text/plain"} }

RawChars == {"0", "1", "9", "-", "+", "a", "."}

\* The byte sequences of length at most n over RawChars.
RECURSIVE RawInputs(_)
RawInputs(n) ==
    IF n = 0 THEN { <<>> }
    ELSE LET shorter == RawInputs(n - 1)
         IN shorter \cup { Append(s, c) : s \in shorter, c \in RawChars }

Instants == { TimeUnix(sec, nsec) : sec \in (0 - MaxSeconds)..MaxSeconds, nsec \in {0, 500} }

(***************************************************************************)
(* State                                                                   *)
(***************************************************************************)

VARIABLES
    accessToken,  \* client.accessToken, fixed by NewClient
    pc,           \* "idle", "returned", or "encoded"/"decoded" for the time codec
    op,           \* the operation called
    args,         \* its arguments
    net,          \* the outcome of its round trip
    sent,         \* the requests handed to the network, in order
    doCalls,      \* the number of calls of client.Do
    do,           \* what Do was given and what it returned
    body,         \* the response body: "none", "open" or "closed"
    result,       \* the value returned
    err,          \* the error returned
    tc            \* the time codec: instant encoded, bytes, instant decoded

vars == <<accessToken, pc, op, args, net, sent, doCalls, do, body, result, err, tc>>

NoCodec == [used |-> FALSE]

Init ==
    /\ accessToken \in Tokens
    /\ pc = "idle"
    /\ op = "none"
    /\ args = <<>>
    /\ net = NoResponse
    /\ sent = <<>>
    /\ doCalls = 0
    /\ do = NotCalled
    /\ body = "none"
    /\ result = "none"
    /\ err = NoErr
    /\ tc = NoCodec

\* The operation o, called with arguments a, returns the outcome out.
Returns(o, a, n, out) ==
    /\ pc' = "returned"
    /\ op' = o
    /\ args' = a
    /\ net' = n
    /\ sent' = out.sent
    /\ doCalls' = out.doCalls
    /\ do' = out.do
    /\ body' = out.body
    /\ result' = out.result
    /\ err' = out.err
    /\ UNCHANGED <<accessToken, tc>>

CallDo ==
    /\ pc = "idle"
    /\ \E req \in DirectRequests, n \in NetOutcomes :
           \E d \in {ClientDo(accessToken, req, n)} :
               Returns("Client.Do", [req |-> req], n,
                       [sent |-> d.sent, doCalls |-> 1, do |-> DoReturn(d), body |-> d.body,
                        result |-> "none", err |-> d.err])

CallGroupsIndex ==
    /\ pc = "idle"
    /\ \E options \in GroupsIndexOptionsSet, n \in ServiceOutcomes :
           \E out \in {GroupsIndex(accessToken, options, n)} :
               Returns("Groups.Index", [options |-> options], n, out)

CallGroupsFormer ==
    /\ pc = "idle"
    /\ \E n \in ServiceOutcomes :
           \E out \in {GroupsFormer(accessToken, n)} :
               Returns("Groups.Former", <<>>, n, out)

CallGroupsShow ==
    /\ pc = "idle"
    /\ \E id \in IDs, n \in ServiceOutcomes :
           \E out \in {GroupsShow(accessToken, id, n)} :
               Returns("Groups.Show", [id |-> id], n, out)

CallGroupsCreate ==
    /\ pc = "idle"
    /\ \E g \in GroupInputs, n \in ServiceOutcomes :
           \E out \in {GroupsCreate(accessToken, g, n)} :
               Returns("Groups.Create", [g |-> g], n, out)

CallGroupsUpdate ==
    /\ pc = "idle"
    /\ \E id \in FewIDs, g \in GroupInputs, n \in ServiceOutcomes :
           \E out \in {GroupsUpdate(accessToken, id, g, n)} :
               Returns("Groups.Update", [id |-> id, g |-> g], n, out)

CallGroupsDestroy ==
    /\ pc = "idle"
    /\ \E id \in IDs, n \in ServiceOutcomes :
           \E out \in {GroupsDestroy(accessToken, id, n)} :
               Returns("Groups.Destroy", [id |-> id], n, out)

CallGroupsJoin ==
    /\ pc = "idle"
    /\ \E id \in IDs, shareToken \in FewIDs, n \in ServiceOutcomes :
           \E out \in {GroupsJoin(accessToken, id, shareToken, n)} :
               Returns("Groups.Join", [id |-> id, shareToken |-> shareToken], n, out)

CallGroupsRejoin ==
    /\ pc = "idle"
    /\ \E id \in IDs, n \in ServiceOutcomes :
           \E out \in {GroupsRejoin(accessToken, id, n)} :
               Returns("Groups.Rejoin", [id |-> id], n, out)

CallMessagesIndex ==
    /\ pc = "idle"
    /\ \E groupID \in MessageGroupIDs, options \in MessagesIndexOptionsSet, n \in ServiceOutcomes :
           \E out \in {MessagesIndex(accessToken, groupID, options, n)} :
               Returns("Messages.Index", [groupID |-> groupID, options |-> options], n, out)

CallLikesCreate ==
    /\ pc = "idle"
    /\ \E c \in FewIDs, m \in FewIDs, n \in ServiceOutcomes :
           \E out \in {LikesCreate(accessToken, c, m, n)} :
               Returns("Likes.Create", [conversationID |-> c, messageID |-> m], n, out)

CallLikesDestroy ==
    /\ pc = "idle"
    /\ \E c \in FewIDs, m \in FewIDs, n \in ServiceOutcomes :
           \E out \in {LikesDestroy(accessToken, c, m, n)} :
               Returns("Likes.Destroy", [conversationID |-> c, messageID |-> m], n, out)

\* t.MarshalJSON() of an instant t.
CallMarshalJSON ==
    /\ pc = "idle"
    /\ \E t \in Instants :
          tc' = [used |-> TRUE, encoded |-> TRUE, t |-> t, data |-> MarshalJSON(t)]
    /\ pc' = "encoded"
    /\ UNCHANGED <<accessToken, op, args, net, sent, doCalls, do, body, result, err>>

\* t.UnmarshalJSON(data) of the bytes MarshalJSON produced.
CallUnmarshalJSON ==
    /\ pc = "encoded"
    /\ tc' = [used |-> TRUE, encoded |-> TRUE, t |-> tc.t, data |-> tc.data,
              out |-> UnmarshalJSON(tc.data)]
    /\ pc' = "decoded"
    /\ UNCHANGED <<accessToken, op, args, net, sent, doCalls, do, body, result, err>>

\* t.UnmarshalJSON(data) of bytes from elsewhere.
CallUnmarshalJSONRaw ==
    /\ pc = "idle"
    /\ \E data \in RawInputs(MaxRawLen) :
          tc' = [used |-> TRUE, encoded |-> FALSE, data |-> data, out |-> UnmarshalJSON(data)]
    /\ pc' = "decoded"
    /\ UNCHANGED <<accessToken, op, args, net, sent, doCalls, do, body, result, err>>

Next ==
    \/ CallDo
    \/ CallGroupsIndex
    \/ CallGroupsFormer
    \/ CallGroupsShow
    \/ CallGroupsCreate
    \/ CallGroupsUpdate
    \/ CallGroupsDestroy
    \/ CallGroupsJoin
    \/ CallGroupsRejoin
    \/ CallMessagesIndex
    \/ CallLikesCreate
    \/ CallLikesDestroy
    \/ CallMarshalJSON
    \/ CallUnmarshalJSON
    \/ CallUnmarshalJSONRaw

Spec == Init /\ [][Next]_vars

(***************************************************************************)
(* Properties                                                              *)
(***************************************************************************)

\* A call of Do has returned, directly or inside a service operation, and
\* its round trip yielded a response.
DoGotResponse == pc = "returned" /\ do.called /\ net.kind = "resp"

\* A service operation has returned.
ServiceReturned == pc = "returned" /\ op # "Client.Do"

\* The error envelopes a server sends: code and message list.
EnvelopeCodes == {404, 500}

EnvelopeErrors == { <<NotFound>>, << <<"a">>, <<"b">> >> }

\* C1: when the round trip of Do yields a status >= 400 with a body that
\* parses as the error envelope, Do fails with an ApiError carrying the
\* envelope's meta.code and meta.errors (404 with ["not found"] gives code
\* 404 and ["not found"]); when the status is < 400, Do returns the
\* response and no error.
C1_DoErrorEnvelope ==
    DoGotResponse =>
        /\ \A code \in EnvelopeCodes, errors \in EnvelopeErrors :
              (net.status >= 400 /\ net.body = ErrorEnvelope(code, errors))
                  => do.err = [kind |-> "api", code |-> code, errors |-> errors]
        /\ (net.status >= 400 /\ DecodeErrorEnvelope(net.body).ok)
              => do.err.kind = "api"
        /\ net.status < 400 => (do.err = NoErr /\ do.resp = net)

\* C1 witness: Do met status 404 with {"meta":{"code":404,"errors":["not
\* found"]}} and returned the ApiError 404 ["not found"].
C1_Witness ==
    /\ DoGotResponse
    /\ op = "Client.Do"
    /\ net.status = 404
    /\ net.body = NotFoundBody
    /\ err = [kind |-> "api", code |-> 404, errors |-> <<NotFound>>]

\* C2: whenever a service operation returns after a round trip that
\* yielded a response, the response body has been closed.
C2_BodyClosed ==
    (ServiceReturned /\ net.kind = "resp" /\ doCalls > 0) => body = "closed"

\* The length of a group's name and description, in characters.
NameChars == Len(args.g.Name)

DescriptionChars == Len(args.g.Description)

\* C3: Create and Update with an empty name, a name of more than 140
\* characters or a description of more than 255 characters return a
\* validation error and make no call to Transport; with a non-empty name
\* of at most 140 characters and a description of at most 255 characters
\* they raise no validation error and, the request once built, send it.
C3_GroupValidation ==
    (ServiceReturned /\ op \in {"Groups.Create", "Groups.Update"}) =>
        IF NameChars = 0 \/ NameChars > 140 \/ DescriptionChars > 255
        THEN err.kind = "validation" /\ doCalls = 0 /\ sent = <<>>
        ELSE err.kind # "validation" /\ (err.kind # "url" => Len(sent) = 1)

\* The limit Messages.Index was called with (nil options: 0).
LimitGiven == IF args.options.nil THEN 0 ELSE args.options.Limit

\* C4: Messages.Index with a limit above 100 fails with the validation
\* error naming the 100 maximum and hands nothing to Transport, whatever
\* the cursors; with a nonzero limit of at most 100 the request sent
\* carries limit with that value, and with limit 0 it carries no limit.
C4_MessagesLimit ==
    (ServiceReturned /\ op = "Messages.Index") =>
        /\ LimitGiven > 100 =>
              /\ err = [kind |-> "validation", method |-> "MessagesService.Index",
                        msg |-> "page limit maximum is 100"]
              /\ doCalls = 0
              /\ sent = <<>>
        /\ (LimitGiven # 0 /\ LimitGiven <= 100 /\ Len(sent) = 1) =>
              ValuesOf(ParseQuery(sent[1].rawQuery), KeyLimit) = <<Itoa(LimitGiven)>>
        /\ (LimitGiven = 0 /\ Len(sent) = 1) =>
              ~HasKey(ParseQuery(sent[1].rawQuery), KeyLimit)

\* C5: the request Do hands to the network carries token exactly once,
\* with the access token of the client as its value whatever token the
\* caller had set, carries Content-Type application/json, and carries
\* every other query parameter of the caller's request with the caller's
\* values, and no parameter besides.
C5_TokenAndContentType ==
    (pc = "returned" /\ do.called) =>
        /\ Len(sent) >= 1
        /\ \A i \in 1..Len(sent) :
              /\ ValuesOf(ParseQuery(sent[i].rawQuery), KeyToken) = <<accessToken>>
              /\ sent[i].contentType = "application/json"
              /\ \A j \in 1..Len(ParseQuery(do.req.rawQuery)) :
                    ParseQuery(do.req.rawQuery)[j][1] # KeyToken =>
                        ValuesOf(ParseQuery(sent[i].rawQuery), ParseQuery(do.req.rawQuery)[j][1])
                            = ValuesOf(ParseQuery(do.req.rawQuery), ParseQuery(do.req.rawQuery)[j][1])
              /\ \A j \in 1..Len(ParseQuery(sent[i].rawQuery)) :
                    \/ ParseQuery(sent[i].rawQuery)[j][1] = KeyToken
                    \/ HasKey(ParseQuery(do.req.rawQuery), ParseQuery(sent[i].rawQuery)[j][1])

\* C5 witness: a GET handed to Do with the query token=a&x=1&token=b went
\* out with the client's token alone, x=1 and the JSON content type.
C5_Witness ==
    /\ pc = "returned"
    /\ op = "Client.Do"
    /\ args.req.method = "GET"
    /\ args.req.contentType = ""
    /\ ValuesOf(ParseQuery(args.req.rawQuery), KeyToken) = << <<"a">>, <<"b">> >>
    /\ Len(sent) = 1
    /\ ValuesOf(ParseQuery(sent[1].rawQuery), KeyToken) = <<accessToken>>
    /\ ValuesOf(ParseQuery(sent[1].rawQuery), <<"x">>) = << <<"1">> >>
    /\ sent[1].contentType = "application/json"

\* C6: a service operation that does not fail local validation calls Do
\* exactly once and Do makes exactly one round trip, whatever the outcome.
C6_OneRoundTrip ==
    ServiceReturned =>
        /\ Len(sent) <= 1
        /\ err.kind # "validation" => (doCalls = 1 /\ Len(sent) = 1)

\* The options Groups.Index was called with (nil options: all zero).
OffsetGiven == IF args.options.nil THEN 0 ELSE args.options.Offset

PerPageGiven == IF args.options.nil THEN 0 ELSE args.options.Limit

OmitGiven == IF args.options.nil THEN <<>> ELSE args.options.Omit

\* A query parameter read as a decimal number equals n.
IsNumber(values, n) ==
    Len(values) = 1 /\ ParseInt(values[1]).ok /\ ParseInt(values[1]).val = n

\* C7: the request of Groups.Index carries page = offset + 1 exactly when
\* the offset is nonzero, per_page = limit exactly when the limit is
\* nonzero, omit as the comma-joined list exactly when the list is not
\* empty, and nothing else but the token; nil options are all-zero options.
C7_GroupsIndexParams ==
    (ServiceReturned /\ op = "Groups.Index") =>
        /\ Len(sent) = 1
        /\ IF OffsetGiven # 0
           THEN IsNumber(ValuesOf(ParseQuery(sent[1].rawQuery), KeyPage), OffsetGiven + 1)
           ELSE ~HasKey(ParseQuery(sent[1].rawQuery), KeyPage)
        /\ IF PerPageGiven # 0
           THEN IsNumber(ValuesOf(ParseQuery(sent[1].rawQuery), KeyPerPage), PerPageGiven)
           ELSE ~HasKey(ParseQuery(sent[1].rawQuery), KeyPerPage)
        /\ IF Len(OmitGiven) > 0
           THEN ValuesOf(ParseQuery(sent[1].rawQuery), KeyOmit) = <<Join(OmitGiven, <<",">>)>>
           ELSE ~HasKey(ParseQuery(sent[1].rawQuery), KeyOmit)
        /\ \A j \in 1..Len(ParseQuery(sent[1].rawQuery)) :
              ParseQuery(sent[1].rawQuery)[j][1] \in {KeyPage, KeyPerPage, KeyOmit, KeyToken}

\* C7 witness: offset 2 and limit 10 went out as page=3 and per_page=10.
C7_Witness ==
    /\ ServiceReturned
    /\ op = "Groups.Index"
    /\ OffsetGiven = 2
    /\ PerPageGiven = 10
    /\ OmitGiven = <<>>
    /\ Len(sent) = 1
    /\ ValuesOf(ParseQuery(sent[1].rawQuery), KeyPage) = << <<"3">> >>
    /\ ValuesOf(ParseQuery(sent[1].rawQuery), KeyPerPage) = << <<"1", "0">> >>

\* The cursors Messages.Index was called with (nil options: all empty).
BeforeIDGiven == IF args.options.nil THEN <<>> ELSE args.options.BeforeID

SinceIDGiven == IF args.options.nil THEN <<>> ELSE args.options.SinceID

AfterIDGiven == IF args.options.nil THEN <<>> ELSE args.options.AfterID

\* The values a request carries for a cursor the caller gave as id.
OnlyIfGiven(id) == IF id # <<>> THEN <<id>> ELSE <<>>

\* C8: the request of Messages.Index carries each of before_id, since_id
\* and after_id with the caller's value exactly when that value is not
\* empty, whatever the other two are.
C8_MessagesCursors ==
    (ServiceReturned /\ op = "Messages.Index" /\ Len(sent) = 1) =>
        /\ ValuesOf(ParseQuery(sent[1].rawQuery), KeyBeforeID) = OnlyIfGiven(BeforeIDGiven)
        /\ ValuesOf(ParseQuery(sent[1].rawQuery), KeySinceID) = OnlyIfGiven(SinceIDGiven)
        /\ ValuesOf(ParseQuery(sent[1].rawQuery), KeyAfterID) = OnlyIfGiven(AfterIDGiven)

\* A byte sequence that is a base-10 signed integer: an optional sign and
\* at least one digit.
IsSignedDecimal(data) ==
    /\ Len(data) >= 1
    /\ \/ IsDigit(data[1])
       \/ data[1] \in {"-", "+"} /\ Len(data) >= 2
    /\ \A i \in 2..Len(data) : IsDigit(data[i])

\* C9: decoding what MarshalJSON wrote for the instant at n seconds gives
\* an instant at n seconds; decoding bytes that are not a base-10 signed
\* integer fails.
C9_TimeCodec ==
    pc = "decoded" =>
        /\ tc.encoded => (tc.out.ok /\ ~tc.out.t.zero /\ tc.out.t.sec = tc.t.sec)
        /\ (~tc.encoded /\ ~IsSignedDecimal(tc.data)) => ~tc.out.ok

\* C9 witness: an instant before the epoch, with a fraction of a second,
\* was written and read back at the same second.
C9_Witness ==
    /\ pc = "decoded"
    /\ tc.encoded
    /\ tc.t.sec < 0
    /\ tc.t.nsec # 0
    /\ tc.out.ok
    /\ tc.out.t.sec = tc.t.sec

G1 == <<"g", "1">>

Test == <<"T", "e", "s", "t">>

\* C10: from {"response":{"group":{"id":"g1","name":"Test"}}} Join and
\* Rejoin return the Group g1/Test, found at response.group; from
\* {"response":{"id":"g1","name":"Test"}} Show, Create and Update return
\* the Group g1/Test, found at response; neither reads the other's place.
C10_JoinUnwrap ==
    (ServiceReturned /\ do.called /\ net.kind = "resp" /\ net.status < 400) =>
        /\ (op \in {"Groups.Join", "Groups.Rejoin"} /\ net.body = JoinBody) =>
              (err = NoErr /\ result.ID = G1 /\ result.Name = Test)
        /\ (op \in {"Groups.Show", "Groups.Create", "Groups.Update"} /\ net.body = ShowBody) =>
              (err = NoErr /\ result.ID = G1 /\ result.Name = Test)
        /\ (op \in {"Groups.Join", "Groups.Rejoin"} /\ net.body = ShowBody) =>
              (result.ID = <<>> /\ result.Name = <<>>)
        /\ (op \in {"Groups.Show", "Groups.Create", "Groups.Update"} /\ net.body = JoinBody) =>
              (result.ID = <<>> /\ result.Name = <<>>)

\* C10 witness: Join met the join body and returned g1/Test.
C10_Witness ==
    /\ ServiceReturned
    /\ op = "Groups.Join"
    /\ net.kind = "resp"
    /\ net.status = 200
    /\ net.body = JoinBody
    /\ result.ID = G1
    /\ result.Name = Test

\* The operations that put a caller's ID into the path.
PathOps ==
    {"Groups.Show", "Groups.Update", "Groups.Destroy", "Groups.Join", "Messages.Index",
     "Likes.Create", "Likes.Destroy"}

\* The IDs the operation was called with.
IDsGiven ==
    CASE op \in {"Groups.Show", "Groups.Update", "Groups.Destroy"} -> <<args.id>>
      [] op = "Groups.Join" -> <<args.id, args.shareToken>>
      [] op = "Messages.Index" -> <<args.groupID>>
      [] op \in {"Likes.Create", "Likes.Destroy"} -> <<args.conversationID, args.messageID>>
      [] OTHER -> <<>>

\* An ID percent-encoded as one path segment: every character but the
\* unreserved ones and & + : = is written as %XX.
RECURSIVE AsSegment(_)
AsSegment(id) ==
    IF id = <<>> THEN <<>>
    ELSE (IF Unreserved(Head(id)) \/ Head(id) \in {"&", "+", ":", "="} THEN <<Head(id)>>
          ELSE PctEncode(PctBytes(Head(id))))
         \o AsSegment(Tail(id))

\* The path the operation's request has when each ID is one segment.
PathWanted ==
    <<"/", "v", "3">> \o
    CASE op = "Groups.Show" -> PathGroups \o <<"/">> \o AsSegment(args.id)
      [] op = "Groups.Update" -> PathGroups \o <<"/">> \o AsSegment(args.id) \o SegUpdate
      [] op = "Groups.Destroy" -> PathGroups \o <<"/">> \o AsSegment(args.id) \o SegDestroy
      [] op = "Groups.Join" ->
            PathGroups \o <<"/">> \o AsSegment(args.id) \o SegJoin \o <<"/">>
                \o AsSegment(args.shareToken)
      [] op = "Messages.Index" -> PathGroups \o <<"/">> \o AsSegment(args.groupID) \o SegMessages
      [] op = "Likes.Create" ->
            SegMessages \o <<"/">> \o AsSegment(args.conversationID) \o <<"/">>
                \o AsSegment(args.messageID) \o SegLike
      [] op = "Likes.Destroy" ->
            SegMessages \o <<"/">> \o AsSegment(args.conversationID) \o <<"/">>
                \o AsSegment(args.messageID) \o SegUnlike

\* The query parameters the operation itself sets, besides the token.
KeysWanted ==
    IF op = "Messages.Index" THEN {KeyBeforeID, KeySinceID, KeyAfterID, KeyLimit} ELSE {}

\* C11: when an ID put into the path holds a character that needs
\* encoding in a path segment ("/", "?", "#", space), the request sent has
\* that character percent-encoded in its path: the ID is one segment of
\* the path and brings in no query parameter and no fragment.
C11_IDsEscaped ==
    (/\ ServiceReturned
     /\ op \in PathOps
     /\ Len(sent) = 1
     /\ \A i \in 1..Len(IDsGiven) : ~Contains(IDsGiven[i], "%")) =>
        /\ EscapedPath(sent[1]) = PathWanted
        /\ sent[1].fragment = <<>>
        /\ \A j \in 1..Len(ParseQuery(sent[1].rawQuery)) :
              ParseQuery(sent[1].rawQuery)[j][1] \in KeysWanted \cup {KeyToken}

\* The operations that return a payload.
PayloadOps ==
    {"Groups.Index", "Groups.Former", "Groups.Show", "Groups.Create", "Groups.Update",
     "Groups.Join", "Groups.Rejoin", "Messages.Index"}

\* A JSON value with the shape of a group: an object with an id.
IsGroupShape(j) == j.k = "obj" /\ HasField(j, "id")

\* The body has the envelope shape of the operation called: a response
\* field holding a list (Index, Former), a group (Show, Create, Update), an
\* object with a group (Join, Rejoin), an object with a list of messages.
ShapeWanted ==
    /\ HasField(net.body, "response")
    /\ CASE op \in {"Groups.Index", "Groups.Former"} ->
              FieldOf(net.body, "response").k = "arr"
         [] op \in {"Groups.Show", "Groups.Create", "Groups.Update"} ->
              IsGroupShape(FieldOf(net.body, "response"))
         [] op \in {"Groups.Join", "Groups.Rejoin"} ->
              IsGroupShape(FieldOf(FieldOf(net.body, "response"), "group"))
         [] op = "Messages.Index" ->
              FieldOf(FieldOf(net.body, "response"), "messages").k = "arr"
         [] OTHER -> FALSE

\* C12: when an operation that returns a payload gets a status < 400 with
\* a body that has not the envelope shape of that operation (no response
\* field, or the payload of another endpoint), it fails with the decode
\* error and does not return a value.
C12_ShapeMismatch ==
    (/\ ServiceReturned
     /\ op \in PayloadOps
     /\ do.called
     /\ net.kind = "resp"
     /\ net.status < 400
     /\ ~ShapeWanted) => err.kind = "decode"

\* The zero value of the operation's result: a nil list, an empty Group,
\* nothing for the operations that return only an error.
ZeroResult ==
    CASE op \in {"Groups.Index", "Groups.Former", "Messages.Index"} -> <<>>
      [] op \in {"Groups.Show", "Groups.Create", "Groups.Update", "Groups.Join",
                 "Groups.Rejoin"} ->
            [ID |-> <<>>, Name |-> <<>>, Description |-> <<>>, CreatedAt |-> ZeroTime]
      [] OTHER -> "none"

\* C13: a service operation returns the error of whatever failed: of its
\* validation (an empty group name), of Do (a failed round trip, a status
\* >= 400), of the decoding of the body (a malformed body, a field of the
\* wrong type); with an error it returns the zero value, never what was
\* decoded so far; Destroy and the Likes operations succeed exactly when
\* Do returned no error.
C13_ErrorsPropagate ==
    ServiceReturned =>
        /\ ~do.called => err # NoErr
        /\ (op \in {"Groups.Create", "Groups.Update"} /\ args.g.Name = <<>>) =>
              (err.kind = "validation" /\ ~do.called)
        /\ (do.called /\ net.kind = "fail") => err.kind = "transport"
        /\ (do.called /\ net.kind = "resp" /\ net.status >= 400) =>
              err.kind \in {"api", "decode"}
        /\ (do.called /\ do.err # NoErr) => err = do.err
        /\ (do.called /\ net.kind = "resp" /\ net.status < 400 /\ op \in PayloadOps
                /\ net.body = JBad) =>
              err.kind = "decode"
        /\ (do.called /\ net.kind = "resp" /\ net.status < 400
                /\ op \in {"Groups.Show", "Groups.Create", "Groups.Update"}
                /\ net.body = BadTimeBody) =>
              err.kind = "decode"
        /\ err # NoErr => result = ZeroResult
        /\ (op \in {"Groups.Destroy", "Likes.Create", "Likes.Destroy"} /\ do.called) =>
              (err = NoErr <=> do.err = NoErr)

\* C13 witness: Show met {"response":{"id":"g1","created_at":"soon"}}: the
\* decoder had read the id when created_at failed, and Show returned the
\* decode error with an empty Group.
C13_Witness ==
    /\ ServiceReturned
    /\ op = "Groups.Show"
    /\ net.kind = "resp"
    /\ net.status = 200
    /\ net.body = BadTimeBody
    /\ err.kind = "decode"
    /\ result = ZeroResult

====
